---- MODULE Spec2Model ----
(***************************************************************************)
(* A model of the Hasura object-mapper root class (src/orm/hasura.js):     *)
(* the table catalog and its three-pass initialisation, the composition of *)
(* per-table builds into one query / subscription / mutation document, the *)
(* single-table flattening of query results and the remapping of mutation  *)
(* responses to the caller's paths.                                        *)
(*                                                                         *)
(* Conventions.                                                            *)
(*  - A JavaScript string that the code splits or concatenates is a        *)
(*    sequence of tokens; the token "." is the dot character.  Table and   *)
(*    action names are GraphQL names and hold no dot.                      *)
(*  - A JavaScript object whose key order the code relies on is an ordered *)
(*    map: a sequence of <<key, value>> pairs with distinct keys, in       *)
(*    insertion order.                                                     *)
(*  - A JavaScript value coming back from the transport is a tagged        *)
(*    record: an object, an atom, null or undefined.                       *)
(*  - A throw is a result record carrying the error.                       *)
(***************************************************************************)
EXTENDS Naturals, Sequences, FiniteSets, TLC

VARIABLES tables, INITIATED, pc, thrown, log, call

vars == <<tables, INITIATED, pc, thrown, log, call>>

(***************************************************************************)
(* Bounds                                                                  *)
(***************************************************************************)
\* rows in one introspection answer
MaxRows == 2
\* table keys in the params of one query / mutate / subscribe call
MaxTables == 2
\* builds (table.action entries) in the params of one mutate call
MaxBuilds == 2
\* primary-key columns set by direct catalog calls
MaxPk == 2

(***************************************************************************)
(* Strings, ordered maps, values                                           *)
(***************************************************************************)
Dot == "."

SeqsUpTo(S, n) == UNION {[1..k -> S] : k \in 0..n}

IsInjective(s) == \A i, j \in 1..Len(s) : s[i] = s[j] => i = j

\* s.split('.')
RECURSIVE Split(_)
Split(s) ==
    IF \A i \in 1..Len(s) : s[i] # Dot
    THEN <<s>>
    ELSE LET k == CHOOSE i \in 1..Len(s) :
                     s[i] = Dot /\ \A j \in 1..(i - 1) : s[j] # Dot
         IN  <<SubSeq(s, 1, k - 1)>> \o Split(SubSeq(s, k + 1, Len(s)))

\* Object.keys(o), Object.values(o) of an ordered map
Keys(o)   == [i \in 1..Len(o) |-> o[i][1]]
Values(o) == [i \in 1..Len(o) |-> o[i][2]]

HasKey(o, k) == \E i \in 1..Len(o) : o[i][1] = k

\* o[k] = v on an ordered map: a new key is appended, an existing key keeps
\* its place and takes the new value
Put(o, k, v) ==
    IF HasKey(o, k)
    THEN [i \in 1..Len(o) |-> IF o[i][1] = k THEN <<k, v>> ELSE o[i]]
    ELSE Append(o, <<k, v>>)

\* Object.assign({}, a, b)
RECURSIVE Assign(_, _)
Assign(a, b) ==
    IF b = <<>> THEN a ELSE Assign(Put(a, Head(b)[1], Head(b)[2]), Tail(b))

NoErr     == [kind |-> "null"]
Undefined == [tag |-> "undefined"]
Null      == [tag |-> "null"]
Atom(a)   == [tag |-> "atom", a |-> a]
\* an object value: f is a function from keys (strings) to values
Obj(f)    == [tag |-> "obj", f |-> f]
EmptyObj  == Obj(<<>>)

TransportError  == [kind |-> "TransportError"]
TypeError       == [kind |-> "TypeError"]
NotFound(name)  == [kind |-> "Error", message |-> <<"table ">> \o name \o <<" not found">>]

(***************************************************************************)
(* Table (./table, a class of this repository that is not under src/)      *)
(***************************************************************************)
NewTable(name, type) ==
    [name |-> name, type |-> type, fields |-> <<>>, primaryKey |-> <<>>, inited |-> 0]

setField(T, f) ==
    [T EXCEPT !.fields = Put(@, f.name, [type |-> f.type, udt |-> f.udt])]

setPrimarykey(T, k) ==
    [T EXCEPT !.primaryKey = Append(@, [name |-> k.name, position |-> k.position])]

TableInit(T) == [T EXCEPT !.inited = @ + 1]

(***************************************************************************)
(* The catalog: this.tables, a function from the registered names          *)
(***************************************************************************)
NoTables == <<>>

Registered(tbls) == DOMAIN tbls

tableMissing(tbls, name) == name \notin DOMAIN tbls

\* a lookup that registers the name it does not find
tableOrCreate(tbls, name) ==
    IF tableMissing(tbls, name)
    THEN [err |-> NoErr, value |-> NewTable(name, "BASE TABLE")]
    ELSE [err |-> NoErr, value |-> tbls[name]]

\* Hasura.table(name): the table, or a throw
table(tbls, name) ==
    IF tableMissing(tbls, name)
    THEN [err |-> NotFound(name), value |-> Undefined]
    ELSE [err |-> NoErr, value |-> tbls[name]]

\* Hasura.createTable({name, type})
createTable(tbls, name, type) ==
    [k \in DOMAIN tbls \cup {name} |->
        IF k = name THEN NewTable(name, type) ELSE tbls[k]]

SetTable(tbls, name, T) == [tbls EXCEPT ![name] = T]

\* data.forEach(row => this.createTable({name: row.table_name, type: row.table_type}))
RECURSIVE applyTableRows(_, _)
applyTableRows(tbls, rows) ==
    IF rows = <<>> THEN [tables |-> tbls, err |-> NoErr]
    ELSE applyTableRows(createTable(tbls, Head(rows).table_name, Head(rows).table_type),
                        Tail(rows))

\* data.forEach(row => this.table(row.table_name).setField({...})): a throw
\* leaves the rows before it applied
RECURSIVE applyColumnRows(_, _)
applyColumnRows(tbls, rows) ==
    IF rows = <<>> THEN [tables |-> tbls, err |-> NoErr]
    ELSE LET row == Head(rows)
             t   == table(tbls, row.table_name)
         IN  IF t.err # NoErr THEN [tables |-> tbls, err |-> t.err]
             ELSE applyColumnRows(
                      SetTable(tbls, row.table_name,
                               setField(t.value, [name |-> row.column_name,
                                                  type |-> row.data_type,
                                                  udt  |-> row.udt_name])),
                      Tail(rows))

\* data.forEach(row => this.table(row.table_name).setPrimarykey({...}))
RECURSIVE applyPrimaryKeyRows(_, _)
applyPrimaryKeyRows(tbls, rows) ==
    IF rows = <<>> THEN [tables |-> tbls, err |-> NoErr]
    ELSE LET row == Head(rows)
             t   == table(tbls, row.table_name)
         IN  IF t.err # NoErr THEN [tables |-> tbls, err |-> t.err]
             ELSE applyPrimaryKeyRows(
                      SetTable(tbls, row.table_name,
                               setPrimarykey(t.value, [name |-> row.key_column,
                                                       position |-> row.position])),
                      Tail(rows))

\* an init() that leaves out the finalize loop
finalizeNone(tbls) == tbls

\* Object.keys(this.tables).forEach(tableName => this.table(tableName).init())
finalizeAll(tbls) == [k \in DOMAIN tbls |-> TableInit(tbls[k])]

(***************************************************************************)
(* init(): one call, suspended at each of its three awaits                 *)
(***************************************************************************)
Run(pass)      == [ev |-> "run", what |-> pass]
Applied(pass)  == [ev |-> "apply", what |-> pass]
Finalized(ns)  == [ev |-> "finalize", what |-> ns]
Ready          == [ev |-> "ready", what |-> "INITIATED"]

\* an init() that does not look at err
sqlNeverFailed(reply) == FALSE

\* if (err) throw err
sqlFailed(reply) == reply.err # NoErr

\* init() is called: it runs to its first await
InitCall ==
    /\ pc = "new"
    /\ pc' = "tables"
    /\ log' = Append(log, Run("tables"))
    /\ UNCHANGED <<tables, INITIATED, thrown, call>>

InitThrow(err) ==
    /\ pc' = "failed"
    /\ thrown' = err

\* the answer to the tables query arrives
TablesReply(reply) ==
    /\ pc = "tables"
    /\ IF sqlFailed(reply)
       THEN /\ InitThrow(reply.err)
            /\ UNCHANGED <<tables, log>>
       ELSE LET r == applyTableRows(tables, reply.data)
            IN  /\ tables' = r.tables
                /\ pc' = "columns"
                /\ log' = log \o <<Applied("tables"), Run("columns")>>
                /\ UNCHANGED thrown
    /\ UNCHANGED <<INITIATED, call>>

\* the answer to the columns query arrives
ColumnsReply(reply) ==
    /\ pc = "columns"
    /\ IF sqlFailed(reply)
       THEN /\ InitThrow(reply.err)
            /\ UNCHANGED <<tables, log>>
       ELSE LET r == applyColumnRows(tables, reply.data)
            IN  /\ tables' = r.tables
                /\ IF r.err # NoErr
                   THEN /\ InitThrow(r.err)
                        /\ UNCHANGED log
                   ELSE /\ pc' = "primaryKeys"
                        /\ log' = log \o <<Applied("columns"), Run("primaryKeys")>>
                        /\ UNCHANGED thrown
    /\ UNCHANGED <<INITIATED, call>>

\* the answer to the primary-key query arrives; the rest of init() runs
\* without suspending
PrimaryKeysReply(reply) ==
    /\ pc = "primaryKeys"
    /\ IF sqlFailed(reply)
       THEN /\ InitThrow(reply.err)
            /\ UNCHANGED <<tables, log, INITIATED>>
       ELSE LET r == applyPrimaryKeyRows(tables, reply.data)
            IN  IF r.err # NoErr
                THEN /\ tables' = r.tables
                     /\ InitThrow(r.err)
                     /\ UNCHANGED <<log, INITIATED>>
                ELSE /\ tables' = finalizeAll(r.tables)
                     /\ INITIATED' = TRUE
                     /\ pc' = "done"
                     /\ log' = log \o <<Applied("primaryKeys"),
                                        Finalized(Registered(r.tables)), Ready>>
                     /\ UNCHANGED thrown
    /\ UNCHANGED call

(***************************************************************************)
(* Per-table builds (Table.buildQuery and Table.buildMutation of ./table,  *)
(* not under src/): what one table contributes to a document               *)
(***************************************************************************)
Where == <<"where">>
Limit == <<"limit">>
Objects == <<"objects">>

ArgType(tableName, arg) ==
    IF arg = Where THEN tableName \o <<"_bool_exp">>
    ELSE IF arg = Limit THEN <<"Int">>
    ELSE <<"[">> \o tableName \o <<"_insert_input!]!">>

VarName(root, arg) == root \o <<"_">> \o arg

VarDecl(tableName, root, arg) ==
    [name |-> VarName(root, arg), type |-> ArgType(tableName, arg)]

RECURSIVE VarBindings(_, _)
VarBindings(root, args) ==
    IF args = <<>> THEN <<>>
    ELSE <<<<VarName(root, Head(args)), Atom(<<"value of ">> \o Head(args))>>>>
         \o VarBindings(root, Tail(args))

\* the text of a named fragment: "fragment <name> on <table> { <selection> }"
FragmentText(name, on, selection) == [fragment |-> name, on |-> on, selection |-> selection]

NoFragment == [given |-> FALSE]
Fragment(name, text) == [given |-> TRUE, fragmentName |-> name, fragment |-> text]

\* the named fragment of a build: the caller's, or one derived from the table
BuildFragment(tableName, root, f) ==
    IF f.given
    THEN [fragmentName |-> f.fragmentName, fragment |-> f.fragment]
    ELSE [fragmentName |-> tableName \o <<"_fields">>,
          fragment     |-> FragmentText(tableName \o <<"_fields">>, tableName, <<"fields">>)]

\* Table.buildQuery({...params[tableName], tableName, queryType})
TableBuildQuery(T, p, tableName, queryType) ==
    LET frag == BuildFragment(tableName, tableName, p.fragment)
    IN  [query |->
            [name      |-> tableName,
             variables |-> [i \in 1..Len(p.args) |-> VarDecl(tableName, tableName, p.args[i])],
             fields    |-> [root |-> tableName, args |-> p.args,
                            selection |-> frag.fragmentName],
             fragment  |-> frag],
         variables |-> VarBindings(tableName, p.args)]

ActionArgs(action) ==
    IF action = <<"insert">> THEN <<Objects>>
    ELSE IF action = <<"update">> THEN <<Where, <<"_set">>>>
    ELSE <<Where>>

\* the root field of one action on a table, in the service's naming
ActionRoot(tableName, action) == action \o <<"_">> \o tableName

\* the caller's path and the service's path of one build's result
CallerPath(tableName, action) == tableName \o <<Dot>> \o action
EndpointPath(tableName, action) == ActionRoot(tableName, action) \o <<Dot, "returning">>

\* one build of Table.buildMutation: one present sub-operation
MutationBuilt(tableName, action, spec) ==
    LET root == ActionRoot(tableName, action)
        frag == BuildFragment(tableName, root, spec.fragment)
        args == ActionArgs(action)
    IN  [query |->
            [name        |-> root,
             variables   |-> [i \in 1..Len(args) |-> VarDecl(tableName, root, args[i])],
             fields      |-> [root |-> root, args |-> args,
                              selection |-> frag.fragmentName],
             fragment    |-> frag,
             flatSetting |-> <<<<CallerPath(tableName, action),
                                 EndpointPath(tableName, action)>>>>],
         variables |-> VarBindings(root, args)]

\* Table.buildMutation({...params[tableName], tableName}): one build for
\* each sub-operation present, in the order of the caller's keys
TableBuildMutation(T, p, tableName) ==
    [i \in 1..Len(p) |-> MutationBuilt(tableName, p[i][1], p[i][2])]

(***************************************************************************)
(* Hasura.buildQuery and Hasura.buildMutation                              *)
(***************************************************************************)
\* s.join(sep) of a sequence of strings
RECURSIVE Join(_, _)
Join(parts, sep) ==
    IF parts = <<>> THEN <<>>
    ELSE IF Len(parts) = 1 THEN parts[1]
    ELSE parts[1] \o <<sep>> \o Join(Tail(parts), sep)

EmptyAcc ==
    [err |-> NoErr, queryName |-> <<>>, queryVariables |-> <<>>, queryFields |-> <<>>,
     queryFragments |-> <<>>, queryFlatSetting |-> <<>>, variables |-> <<>>,
     read |-> <<>>]

\* a fragment map that keeps the text it already holds under a name
addFragmentOnce(queryFragments, fragment) ==
    IF HasKey(queryFragments, fragment.fragmentName) THEN queryFragments
    ELSE Append(queryFragments, <<fragment.fragmentName, fragment.fragment>>)

\* queryFragments[built.query.fragment.fragmentName] = built.query.fragment.fragment
addFragment(queryFragments, fragment) ==
    Put(queryFragments, fragment.fragmentName, fragment.fragment)

\* unshift in place of push: the latest build goes first
mergeBuiltFront(acc, built) ==
    [acc EXCEPT !.queryName      = <<built.query.name>> \o @,
                !.queryVariables = built.query.variables \o @,
                !.queryFields    = <<built.query.fields>> \o @,
                !.queryFragments = Put(@, built.query.fragment.fragmentName,
                                       built.query.fragment.fragment),
                !.variables      = Assign(@, built.variables)]

\* the pushes of one build onto the accumulators
mergeBuilt(acc, built) ==
    [acc EXCEPT !.queryName      = Append(@, built.query.name),
                !.queryVariables = @ \o built.query.variables,
                !.queryFields    = Append(@, built.query.fields),
                !.queryFragments = addFragment(@, built.query.fragment),
                !.variables      = Assign(@, built.variables)]

\* queryFlatSetting.push(built.query.flatSetting)
pushFlatSetting(acc, built) ==
    [acc EXCEPT !.queryFlatSetting = Append(@, built.query.flatSetting)]

\* tables.forEach(tableName => ...) of buildQuery, from the i-th key on
RECURSIVE queryBuilds(_, _, _, _, _)
queryBuilds(tbls, params, queryType, i, acc) ==
    IF i > Len(params) THEN acc
    ELSE LET tableName == params[i][1]
             t         == table(tbls, tableName)
         IN  IF t.err # NoErr THEN [acc EXCEPT !.err = t.err]
             ELSE queryBuilds(tbls, params, queryType, i + 1,
                      [mergeBuilt(acc, TableBuildQuery(t.value, params[i][2],
                                                       tableName, queryType))
                          EXCEPT !.read = Append(@, t.value)])

\* the document text, by its parts
queryText(acc, queryType) ==
    [fragments   |-> Values(acc.queryFragments),
     operation   |-> queryType,
     name        |-> Join(acc.queryName, "_"),
     parentheses |-> Len(acc.queryVariables) > 0,
     variables   |-> acc.queryVariables,
     fields      |-> acc.queryFields]

\* Hasura.buildQuery(params, queryType)
buildQuery(tbls, params, queryType) ==
    LET acc == queryBuilds(tbls, params, queryType, 1, EmptyAcc)
    IN  IF acc.err # NoErr
        THEN [err |-> acc.err, query |-> Undefined, variables |-> <<>>,
              read |-> acc.read]
        ELSE [err |-> NoErr, query |-> queryText(acc, queryType),
              variables |-> acc.variables, read |-> acc.read]

\* builts.forEach(built => ...)
RECURSIVE mergeBuilts(_, _)
mergeBuilts(acc, builts) ==
    IF builts = <<>> THEN acc
    ELSE mergeBuilts(pushFlatSetting(mergeBuilt(acc, Head(builts)), Head(builts)),
                     Tail(builts))

\* tables.forEach(tableName => ...) of buildMutation: this.tables[tableName]
\* is read directly, and a call on undefined is a TypeError
RECURSIVE mutationBuilds(_, _, _, _)
mutationBuilds(tbls, params, i, acc) ==
    IF i > Len(params) THEN acc
    ELSE LET tableName == params[i][1]
         IN  IF tableMissing(tbls, tableName) THEN [acc EXCEPT !.err = TypeError]
             ELSE mutationBuilds(tbls, params, i + 1,
                      [mergeBuilts(acc, TableBuildMutation(tbls[tableName], params[i][2],
                                                           tableName))
                          EXCEPT !.read = Append(@, tbls[tableName])])

mutationText(acc) ==
    [fragments   |-> Values(acc.queryFragments),
     operation   |-> "mutation",
     name        |-> Join(acc.queryName, "_"),
     parentheses |-> TRUE,
     variables   |-> acc.queryVariables,
     fields      |-> acc.queryFields]

\* Hasura.buildMutation(params)
buildMutation(tbls, params) ==
    LET acc == mutationBuilds(tbls, params, 1, EmptyAcc)
    IN  IF acc.err # NoErr
        THEN [err |-> acc.err, query |-> Undefined, variables |-> <<>>,
              flatSettings |-> <<>>, read |-> acc.read]
        ELSE [err |-> NoErr, query |-> mutationText(acc),
              variables |-> acc.variables, flatSettings |-> acc.queryFlatSetting,
              read |-> acc.read]

(***************************************************************************)
(* The result of query: the single-table flattening                        *)
(***************************************************************************)
\* o[i]: a property read; null and undefined have no properties
getProp(o, i) ==
    IF o.tag \in {"undefined", "null"} THEN [thrown |-> TRUE, value |-> Undefined]
    ELSE IF o.tag = "obj" /\ i \in DOMAIN o.f THEN [thrown |-> FALSE, value |-> o.f[i]]
    ELSE [thrown |-> FALSE, value |-> Undefined]

\* a flattening test that does not look at the flag
flattensWhateverFlag(params, flatOne) == Len(Keys(params)) = 1

\* Object.keys(params).length == 1 && flatOne
flattens(params, flatOne) == Len(Keys(params)) = 1 /\ flatOne

\* the return of query once the transport has answered
queryResult(params, flatOne, reply) ==
    IF reply.err # NoErr THEN [thrown |-> FALSE, result |-> <<reply.err>>]
    ELSE IF flattens(params, flatOne)
    THEN LET v == getProp(reply.response, Keys(params)[1])
         IN  [thrown |-> v.thrown, result |-> <<NoErr, v.value>>]
    ELSE [thrown |-> FALSE, result |-> <<NoErr, reply.response>>]

(***************************************************************************)
(* The result of mutate: the response remapped to the caller's paths       *)
(***************************************************************************)
\* segs.reduce((o, i) => o[i], response)
RECURSIVE reduce(_, _)
reduce(segs, o) ==
    IF segs = <<>> THEN [thrown |-> FALSE, value |-> o]
    ELSE LET v == getProp(o, Head(segs))
         IN  IF v.thrown THEN v ELSE reduce(Tail(segs), v.value)

\* a walk that stops at the root field
resolveRootOnly(path, response) == reduce(<<Head(Split(path))>>, response)

\* flat[1].split('.').reduce((o, i) => o[i], response)
resolve(path, response) == reduce(Split(path), response)

SetKey(f, k, v) == [x \in DOMAIN f \cup {k} |-> IF x = k THEN v ELSE f[x]]

RECURSIVE setPath(_, _, _)
setPath(o, segs, value) ==
    IF Len(segs) = 1 THEN Obj(SetKey(o.f, segs[1], value))
    ELSE LET k     == Head(segs)
             child == IF k \in DOMAIN o.f /\ o.f[k].tag = "obj" THEN o.f[k] ELSE EmptyObj
         IN  Obj(SetKey(o.f, k, setPath(child, Tail(segs), value)))

\* __.objectFromPath(obj, path, value) of ../utils/helpers (not under src/)
objectFromPath(obj, path, value) == setPath(obj, Split(path), value)

\* Object.entries(flat)[0]
firstEntry(flat) == flat[1]

\* flatSettings.forEach(flat => ...): a throw inside it leaves mutate
RECURSIVE remap(_, _, _)
remap(flatSettings, response, toReturn) ==
    IF flatSettings = <<>> THEN [thrown |-> FALSE, value |-> toReturn]
    ELSE LET flat == firstEntry(Head(flatSettings))
             v    == resolve(flat[2], response)
         IN  IF v.thrown THEN [thrown |-> TRUE, value |-> Undefined]
             ELSE remap(Tail(flatSettings), response,
                        objectFromPath(toReturn, flat[1], v.value))

\* the return of mutate once the transport has answered
mutateResult(flatSettings, reply) ==
    IF reply.err # NoErr THEN [thrown |-> FALSE, result |-> <<reply.err>>]
    ELSE LET r == remap(flatSettings, reply.response, EmptyObj)
         IN  [thrown |-> r.thrown, result |-> <<NoErr, r.value>>]

(***************************************************************************)
(* The caller's latest call of query, mutate or subscribe                  *)
(***************************************************************************)
NoReply == [err |-> NoErr, response |-> Undefined]

IdleCall ==
    [op |-> "none", stage |-> "idle", params |-> <<>>, flatOne |-> TRUE,
     query |-> Undefined, variables |-> <<>>, flatSettings |-> <<>>,
     ran |-> FALSE, ws |-> Undefined, reply |-> NoReply, result |-> <<>>,
     rejected |-> NoErr, handle |-> Undefined, read |-> <<>>]

\* query(params, {flatOne}) is called: it runs to its await, or returns the
\* error of the build
Query(params, flatOne) ==
    /\ call.stage = "idle"
    /\ LET b == buildQuery(tables, params, "query")
           c == [IdleCall EXCEPT !.op = "query", !.params = params,
                                 !.flatOne = flatOne, !.read = b.read]
       IN  call' = IF b.err # NoErr
                   THEN [c EXCEPT !.stage = "returned", !.result = <<b.err>>]
                   ELSE [c EXCEPT !.stage = "awaiting", !.query = b.query,
                                  !.variables = b.variables, !.ran = TRUE]
    /\ UNCHANGED <<tables, INITIATED, pc, thrown, log>>

\* the transport answers the query
QueryReply(reply) ==
    /\ LET r == queryResult(call.params, call.flatOne, reply)
       IN  call' = IF r.thrown
                   THEN [call EXCEPT !.stage = "rejected", !.reply = reply,
                                     !.rejected = TypeError]
                   ELSE [call EXCEPT !.stage = "returned", !.reply = reply,
                                     !.result = r.result]
    /\ UNCHANGED <<tables, INITIATED, pc, thrown, log>>

\* mutate(params) is called
Mutate(params) ==
    /\ call.stage = "idle"
    /\ LET b == buildMutation(tables, params)
           c == [IdleCall EXCEPT !.op = "mutate", !.params = params, !.read = b.read]
       IN  call' = IF b.err # NoErr
                   THEN [c EXCEPT !.stage = "returned", !.result = <<b.err>>]
                   ELSE [c EXCEPT !.stage = "awaiting", !.query = b.query,
                                  !.variables = b.variables,
                                  !.flatSettings = b.flatSettings, !.ran = TRUE]
    /\ UNCHANGED <<tables, INITIATED, pc, thrown, log>>

\* the transport answers the mutation
MutateReply(reply) ==
    /\ LET r == mutateResult(call.flatSettings, reply)
       IN  call' = IF r.thrown
                   THEN [call EXCEPT !.stage = "rejected", !.reply = reply,
                                     !.rejected = TypeError]
                   ELSE [call EXCEPT !.stage = "returned", !.reply = reply,
                                     !.result = r.result]
    /\ UNCHANGED <<tables, INITIATED, pc, thrown, log>>

\* settings.flatOne of the live request: the single key, or false
wsFlatOne(params, flatOne) ==
    IF flattens(params, flatOne)
    THEN [flat |-> TRUE, key |-> Keys(params)[1]]
    ELSE [flat |-> FALSE, key |-> <<>>]

\* subscribe(params, callback, {flatOne}) is called: it opens the live
\* request and returns its handle, or returns the error of the build
Subscribe(params, flatOne) ==
    /\ call.stage = "idle"
    /\ LET b == buildQuery(tables, params, "subscription")
           c == [IdleCall EXCEPT !.op = "subscribe", !.params = params,
                                 !.flatOne = flatOne, !.read = b.read,
                                 !.stage = "returned"]
       IN  call' = IF b.err # NoErr
                   THEN [c EXCEPT !.result = <<b.err>>]
                   ELSE [c EXCEPT !.query = b.query, !.variables = b.variables,
                                  !.ws = [query |-> b.query, variables |-> b.variables,
                                          settings |-> wsFlatOne(params, flatOne)],
                                  !.handle = Atom(<<"unsub">>)]
    /\ UNCHANGED <<tables, INITIATED, pc, thrown, log>>

(***************************************************************************)
(* Inputs                                                                  *)
(***************************************************************************)
User  == <<"user">>
Post  == <<"post">>
\* a name no introspection answer holds
Ghost == <<"ghost">>

DbTables   == {User, Post}
CallTables == {User, Post, Ghost}

TableTypes == {"BASE TABLE", "VIEW"}
TableRows  == [table_name : DbTables, table_type : {"BASE TABLE"}]
ColumnRows == [table_name : DbTables, column_name : {<<"id">>, <<"name">>},
               data_type : {"integer"}, udt_name : {"int4"}]
PrimaryKeyRows == [table_name : DbTables, key_column : {<<"id">>}, position : {1}]

\* what $sql.run resolves to: [err], or [null, rows]
SqlReplies(rows) ==
    {[err |-> TransportError, data |-> <<>>]}
        \cup {[err |-> NoErr, data |-> d] : d \in SeqsUpTo(rows, MaxRows)}

TableReplies      == SqlReplies(TableRows)
ColumnReplies     == SqlReplies(ColumnRows)
PrimaryKeyReplies == SqlReplies(PrimaryKeyRows)

\* the answers of one fixed database: two tables with an id primary key
SchemaTables ==
    [err |-> NoErr,
     data |-> <<[table_name |-> User, table_type |-> "BASE TABLE"],
                [table_name |-> Post, table_type |-> "BASE TABLE"]>>]
SchemaColumns ==
    [err |-> NoErr,
     data |-> <<[table_name |-> User, column_name |-> <<"id">>,
                 data_type |-> "integer", udt_name |-> "int4"],
                [table_name |-> Post, column_name |-> <<"id">>,
                 data_type |-> "integer", udt_name |-> "int4"]>>]
SchemaPrimaryKeys ==
    [err |-> NoErr,
     data |-> <<[table_name |-> User, key_column |-> <<"id">>, position |-> 1],
                [table_name |-> Post, key_column |-> <<"id">>, position |-> 1]>>]

\* two caller fragments of one name and different text
SharedA == Fragment(<<"shared">>, FragmentText(<<"shared">>, User, <<"id">>))
SharedB == Fragment(<<"shared">>, FragmentText(<<"shared">>, User, <<"id name">>))
FragmentChoices == {NoFragment, SharedA, SharedB}

ArgChoices == {<<>>, <<Where, Limit>>}

\* params of query and subscribe: an ordered map from table names
QueryParamsOver(names, tableParams) ==
    {p \in SeqsUpTo(names \X tableParams, MaxTables) : IsInjective(Keys(p))}

QueryParams == QueryParamsOver(CallTables, [args : ArgChoices, fragment : FragmentChoices])
PlainQueryParams == QueryParamsOver(DbTables, [args : {<<>>}, fragment : {NoFragment}])

Actions  == {<<"insert">>, <<"update">>, <<"delete">>}
NoAction == <<>>

\* params of mutate, from its table.action entries in the caller's order;
\* an entry without action is a table key with no sub-operation
AddEntry(params, e) ==
    LET old == IF HasKey(params, e[1])
               THEN (CHOOSE i \in 1..Len(params) : params[i][1] = e[1])
               ELSE 0
        ops == IF old = 0 THEN <<>> ELSE params[old][2]
    IN  Put(params, e[1],
            IF e[2] = NoAction THEN ops ELSE Put(ops, e[2], [fragment |-> e[3]]))

RECURSIVE FromEntries(_)
FromEntries(es) ==
    IF es = <<>> THEN <<>>
    ELSE AddEntry(FromEntries(SubSeq(es, 1, Len(es) - 1)), es[Len(es)])

MutationParamsOver(names, actions, fragments) ==
    {p \in {FromEntries(es) : es \in SeqsUpTo(names \X actions \X fragments, MaxBuilds)} :
        Len(p) <= MaxTables}

MutationParams == MutationParamsOver(CallTables, Actions \cup {NoAction}, {SharedA, SharedB})
PlainMutationParams == MutationParamsOver(DbTables, {<<"insert">>, NoAction}, {NoFragment})

Rows(key) == Atom(<<"rows of ">> \o key)

\* what $gql.run resolves to for a query: [err], or [null, response]
QueryReplies(params) ==
    {[err |-> TransportError, response |-> Undefined]}
        \cup {[err |-> NoErr, response |-> Obj([k \in S |-> Rows(k)])] :
                 S \in SUBSET {params[i][1] : i \in 1..Len(params)}}

RootValue(root, shape) ==
    IF shape = "returning" THEN Obj([k \in {<<"returning">>} |-> Rows(root)])
    ELSE IF shape = "empty" THEN EmptyObj
    ELSE Null

\* what $gql.run resolves to for a mutation: each root field is absent, null,
\* an object without returning, or an object with it
MutationReplies(query) ==
    LET roots == {query.fields[i].root : i \in 1..Len(query.fields)}
    IN  {[err |-> TransportError, response |-> Undefined]}
            \cup UNION {{[err |-> NoErr,
                          response |-> Obj([k \in S |-> RootValue(k, shape[k])])] :
                            shape \in [S -> {"returning", "empty", "null"}]} :
                        S \in SUBSET roots}

\* the caller has taken the outcome of its call, and may call again
CallDone ==
    /\ call.stage \in {"returned", "rejected"}
    /\ call' = IdleCall
    /\ UNCHANGED <<tables, INITIATED, pc, thrown, log>>

\* $gql.run of the pending query resolves
QueryAnswered ==
    /\ call.op = "query"
    /\ call.stage = "awaiting"
    /\ \E reply \in QueryReplies(call.params) : QueryReply(reply)

\* $gql.run of the pending mutation resolves
MutationAnswered ==
    /\ call.op = "mutate"
    /\ call.stage = "awaiting"
    /\ \E reply \in MutationReplies(call.query) : MutateReply(reply)

(***************************************************************************)
(* Specifications                                                          *)
(***************************************************************************)
\* the state after the constructor
Init ==
    /\ tables = NoTables
    /\ INITIATED = FALSE
    /\ pc = "new"
    /\ thrown = NoErr
    /\ log = <<>>
    /\ call = IdleCall

\* init() against any database and a transport that may fail, with calls of
\* query, mutate and subscribe at any moment
Next ==
    \/ InitCall
    \/ \E reply \in TableReplies : TablesReply(reply)
    \/ \E reply \in ColumnReplies : ColumnsReply(reply)
    \/ \E reply \in PrimaryKeyReplies : PrimaryKeysReply(reply)
    \/ call.stage = "idle" /\ \E params \in PlainQueryParams, flatOne \in BOOLEAN : Query(params, flatOne)
    \/ QueryAnswered
    \/ call.stage = "idle" /\ \E params \in PlainMutationParams : Mutate(params)
    \/ MutationAnswered
    \/ call.stage = "idle" /\ \E params \in PlainQueryParams, flatOne \in BOOLEAN : Subscribe(params, flatOne)
    \/ CallDone

Spec == Init /\ [][Next]_vars

\* init() against one fixed database, with calls of every shape
CallNext ==
    \/ InitCall
    \/ TablesReply(SchemaTables)
    \/ ColumnsReply(SchemaColumns)
    \/ PrimaryKeysReply(SchemaPrimaryKeys)
    \/ call.stage = "idle" /\ \E params \in QueryParams, flatOne \in BOOLEAN : Query(params, flatOne)
    \/ QueryAnswered
    \/ call.stage = "idle" /\ \E params \in MutationParams : Mutate(params)
    \/ MutationAnswered
    \/ call.stage = "idle" /\ \E params \in QueryParams, flatOne \in BOOLEAN : Subscribe(params, flatOne)
    \/ CallDone

CallSpec == Init /\ [][CallNext]_vars

(***************************************************************************)
(* The catalog's methods called directly                                   *)
(***************************************************************************)
\* hasura.createTable({name, type})
CatCreateTable(name, type) ==
    /\ tables' = createTable(tables, name, type)
    /\ UNCHANGED <<INITIATED, pc, thrown, log, call>>

\* hasura.table(name).setField({name: column, ...}); a throw changes nothing
CatSetField(name, column) ==
    /\ table(tables, name).err = NoErr
    /\ tables' = SetTable(tables, name,
                          setField(table(tables, name).value,
                                   [name |-> column, type |-> "integer", udt |-> "int4"]))
    /\ UNCHANGED <<INITIATED, pc, thrown, log, call>>

\* hasura.table(name).setPrimarykey({name: column, position})
CatSetPrimarykey(name, column) ==
    /\ table(tables, name).err = NoErr
    /\ Len(tables[name].primaryKey) < MaxPk
    /\ tables' = SetTable(tables, name,
                          setPrimarykey(table(tables, name).value,
                                        [name |-> column,
                                         position |-> Len(tables[name].primaryKey) + 1]))
    /\ UNCHANGED <<INITIATED, pc, thrown, log, call>>

CatalogNext ==
    \/ \E name \in DbTables, type \in TableTypes : CatCreateTable(name, type)
    \/ \E name \in DbTables, column \in {<<"id">>, <<"name">>} : CatSetField(name, column)
    \/ \E name \in DbTables, column \in {<<"id">>, <<"name">>} : CatSetPrimarykey(name, column)

CatalogSpec == Init /\ [][CatalogNext]_vars

(***************************************************************************)
(* Properties                                                              *)
(***************************************************************************)
\* the transport answered the call without error and the call returned
Succeeded(op) ==
    /\ call.op = op
    /\ call.stage = "returned"
    /\ call.ran
    /\ call.reply.err = NoErr

\* the step is a call of query or mutate
CallStep ==
    /\ call.stage = "idle"
    /\ call'.stage # "idle"
    /\ call'.op \in {"query", "mutate"}

IsErrorResult(result) == Len(result) = 1 /\ result[1] # NoErr

\* C1: a call of query or mutate whose params name a table absent from the
\* catalog returns an error result, a one-element [err] with a non-null
\* error and no value, and does not invoke the transport for that call.
C1_UnknownTableNeverReachesTransport ==
    [][(CallStep /\ \E i \in 1..Len(call'.params) :
                        call'.params[i][1] \notin DOMAIN tables)
          => /\ call'.stage = "returned"
             /\ IsErrorResult(call'.result)
             /\ ~call'.ran
             /\ call'.query = Undefined]_vars

C1_Witness ==
    /\ pc = "done"
    /\ call.op = "mutate"
    /\ Keys(call.params) = <<User, Ghost>>
    /\ call.stage = "returned"
    /\ IsErrorResult(call.result)
    /\ ~call.ran

\* the own property of an object value, undefined when it has none
Prop(o, k) == IF o.tag = "obj" /\ k \in DOMAIN o.f THEN o.f[k] ELSE Undefined

\* C2: when the transport answers a query with response R, the call returns
\* R[t] if params has exactly one key t and flatOne is true, and R itself
\* otherwise, whatever the flag.
C2_FlatteningLaw ==
    /\ call.op = "query" => call.stage # "rejected"
    /\ Succeeded("query") =>
          LET R    == call.reply.response
              keys == Keys(call.params)
          IN  IF Len(keys) = 1 /\ call.flatOne
              THEN call.result = <<NoErr, Prop(R, keys[1])>>
              ELSE call.result = <<NoErr, R>>

C2_Witness ==
    /\ Succeeded("query")
    /\ Keys(call.params) = <<User>>
    /\ call.flatOne
    /\ call.result = <<NoErr, Rows(User)>>

RECURSIVE ValueAt(_, _)
ValueAt(o, segs) ==
    IF segs = <<>> THEN o ELSE ValueAt(Prop(o, Head(segs)), Tail(segs))

\* the table.action pairs of the params of a mutation, in build order
RECURSIVE BuildsOf(_)
BuildsOf(params) ==
    IF params = <<>> THEN <<>>
    ELSE [j \in 1..Len(params[1][2]) |-> <<params[1][1], params[1][2][j][1]>>]
         \o BuildsOf(Tail(params))

\* C3: when the transport answers a mutation with response R, the call
\* returns a fresh object that holds, for the flat-path entry of every build
\* of every table (one entry per build, in build order), at the caller's
\* path table.action the value found at the endpoint's path in R; the result
\* is keyed by table and then by action even for one table.
C3_MutationResultRemapped ==
    Succeeded("mutate") =>
        LET R      == call.reply.response
            res    == call.result[2]
            builds == BuildsOf(call.params)
        IN  /\ call.result[1] = NoErr
            /\ res.tag = "obj"
            /\ Len(call.flatSettings) = Len(builds)
            /\ \A k \in 1..Len(builds) :
                  LET flat == call.flatSettings[k][1]
                  IN  /\ Split(flat[1]) = builds[k]
                      /\ ValueAt(res, builds[k]) = ValueAt(R, Split(flat[2]))
            /\ DOMAIN res.f = {builds[k][1] : k \in 1..Len(builds)}
            /\ \A t \in DOMAIN res.f :
                  /\ res.f[t].tag = "obj"
                  /\ DOMAIN res.f[t].f =
                        {builds[k][2] : k \in {x \in 1..Len(builds) : builds[x][1] = t}}

C3_Witness ==
    /\ Succeeded("mutate")
    /\ BuildsOf(call.params) = <<<<Post, <<"update">>>>, <<User, <<"insert">>>>>>
    /\ call.result[2] =
          Obj([t \in {User, Post} |->
                  IF t = User
                  THEN Obj([a \in {<<"insert">>} |-> Rows(<<"insert", "_", "user">>)])
                  ELSE Obj([a \in {<<"update">>} |-> Rows(<<"update", "_", "post">>)])])

\* every segment of the path is an own property along the walk
RECURSIVE Present(_, _)
Present(o, segs) ==
    IF segs = <<>> THEN TRUE
    ELSE /\ o.tag = "obj"
         /\ Head(segs) \in DOMAIN o.f
         /\ Present(o.f[Head(segs)], Tail(segs))

\* C4: when the response to a mutation lacks a segment of a recorded endpoint
\* path, mutate returns an error result: it neither throws nor returns a
\* success result holding undefined at the caller's path.
C4_MissingSegmentIsErrorResult ==
    (/\ call.op = "mutate"
     /\ call.stage \in {"returned", "rejected"}
     /\ call.ran
     /\ call.reply.err = NoErr
     /\ \E k \in 1..Len(call.flatSettings) :
           ~Present(call.reply.response, Split(call.flatSettings[k][1][2])))
        => /\ call.stage = "returned"
           /\ IsErrorResult(call.result)

LogShape == [i \in 1..Len(log) |-> <<log[i].ev,
                IF log[i].ev \in {"run", "apply"} THEN log[i].what ELSE "-">>]

InitOrder ==
    <<<<"run", "tables">>, <<"apply", "tables">>,
      <<"run", "columns">>, <<"apply", "columns">>,
      <<"run", "primaryKeys">>, <<"apply", "primaryKeys">>,
      <<"finalize", "-">>, <<"ready", "-">>>>

InLog(e) == \E i \in 1..Len(log) : log[i] = e

\* C5: init() issues and applies the three introspection passes in the order
\* tables, columns, primary keys, each applied before the next is issued; no
\* table is finalized before all three are applied; every registered table
\* is finalized exactly once; INITIATED becomes true only after that.
C5_InitIsSequential ==
    /\ Len(log) <= Len(InitOrder)
    /\ LogShape = SubSeq(InitOrder, 1, Len(log))
    /\ \A n \in DOMAIN tables :
          /\ tables[n].inited <= 1
          /\ tables[n].inited = 1 => InLog(Applied("primaryKeys"))
    /\ INITIATED =>
          /\ \A n \in DOMAIN tables : tables[n].inited = 1
          /\ InLog(Finalized(DOMAIN tables))
          /\ log[Len(log)] = Ready
    /\ INITIATED <=> pc = "done"

C5_Witness ==
    /\ INITIATED
    /\ DOMAIN tables = {User, Post}
    /\ Keys(tables[User].fields) = <<<<"id">>, <<"name">>>>
    /\ Len(tables[User].primaryKey) = 1
    /\ tables[Post].inited = 1

\* C6: no call of query, mutate or subscribe builds a document from a
\* catalog table that is not yet populated and finalized.
C6_NoPartialStateReads ==
    \A i \in 1..Len(call.read) : call.read[i].inited >= 1

Unregistered(reply) ==
    {i \in 1..Len(reply.data) : reply.data[i].table_name \notin DOMAIN tables}

FirstUnregistered(reply) ==
    reply.data[CHOOSE i \in Unregistered(reply) : \A j \in Unregistered(reply) : i <= j]

InitFailsWith(err) ==
    /\ pc' = "failed"
    /\ thrown' = err
    /\ log' = log
    /\ ~INITIATED'
    /\ \A n \in DOMAIN tables' : tables'[n].inited = 0

\* C7: init() fails with the error when an introspection call returns one,
\* and with the lookup's error when a column or primary-key row names a
\* table the tables pass did not register; in each failure no later pass is
\* issued, no table is finalized and INITIATED stays false.
C7_InitFailures ==
    [][/\ (pc = "tables" /\ pc' # pc) =>
             \A reply \in TableReplies :
                (TablesReply(reply) /\ reply.err # NoErr) => InitFailsWith(reply.err)
       /\ (pc = "columns" /\ pc' # pc) =>
             \A reply \in ColumnReplies :
                /\ (ColumnsReply(reply) /\ reply.err # NoErr) => InitFailsWith(reply.err)
                /\ (ColumnsReply(reply) /\ reply.err = NoErr /\ Unregistered(reply) # {})
                      => InitFailsWith(NotFound(FirstUnregistered(reply).table_name))
       /\ (pc = "primaryKeys" /\ pc' # pc) =>
             \A reply \in PrimaryKeyReplies :
                /\ (PrimaryKeysReply(reply) /\ reply.err # NoErr) => InitFailsWith(reply.err)
                /\ (PrimaryKeysReply(reply) /\ reply.err = NoErr /\ Unregistered(reply) # {})
                      => InitFailsWith(NotFound(FirstUnregistered(reply).table_name))
       /\ pc = "failed" =>
             /\ pc' = "failed"
             /\ log' = log
             /\ tables' = tables
             /\ ~INITIATED']_vars

C7_Witness ==
    /\ pc = "failed"
    /\ thrown = NotFound(Post)
    /\ log[Len(log)] = Run("primaryKeys")
    /\ DOMAIN tables = {User}
    /\ Len(tables[User].primaryKey) = 1
    /\ ~INITIATED

\* C8: createTable creates a Table only if none exists under the name: a call
\* for a registered name leaves the existing Table, with its fields and
\* primary-key columns, unchanged.
C8_CreateTableIsIdempotent ==
    [][\A name \in DOMAIN tables, type \in TableTypes :
          CatCreateTable(name, type) => tables'[name] = tables[name]]_vars

\* C9: buildQuery keeps the caller's table order: for params with keys
\* t1..tn the parts of the operation name, the variable declarations and the
\* root selections of the document are those of t1..tn, in that order.
C9_TableOrderPreserved ==
    (call.op \in {"query", "subscribe"} /\ call.query # Undefined) =>
        LET doc  == call.query
            keys == Keys(call.params)
            owners == [i \in 1..Len(doc.variables) |-> <<doc.variables[i].name[1]>>]
            RECURSIVE Expected(_)
            Expected(ps) ==
                IF ps = <<>> THEN <<>>
                ELSE [j \in 1..Len(ps[1][2].args) |-> ps[1][1]] \o Expected(Tail(ps))
        IN  /\ doc.name = Join(keys, "_")
            /\ [i \in 1..Len(doc.fields) |-> doc.fields[i].root] = keys
            /\ owners = Expected(call.params)
            /\ \A i \in 1..Len(doc.variables) :
                  \E k \in 1..Len(call.params) :
                      \E j \in 1..Len(call.params[k][2].args) :
                          doc.variables[i].name = VarName(keys[k], call.params[k][2].args[j])
            /\ Keys(call.variables) = [i \in 1..Len(doc.variables) |-> doc.variables[i].name]

C9_Witness ==
    /\ call.op = "query"
    /\ call.stage = "awaiting"
    /\ Keys(call.params) = <<User, Post>>
    /\ call.query.name = <<"user", "_", "post">>
    /\ [i \in 1..Len(call.query.variables) |-> call.query.variables[i].name] =
          <<VarName(User, Where), VarName(User, Limit),
            VarName(Post, Where), VarName(Post, Limit)>>

\* the named fragments of the builds of a call, in build order
BuildFragments(c) ==
    IF c.op = "mutate"
    THEN LET builds == BuildsOf(c.params)
             RECURSIVE Specs(_)
             Specs(ps) == IF ps = <<>> THEN <<>>
                          ELSE Values(ps[1][2]) \o Specs(Tail(ps))
             specs == Specs(c.params)
         IN  [k \in 1..Len(builds) |->
                 BuildFragment(builds[k][1], ActionRoot(builds[k][1], builds[k][2]),
                               specs[k].fragment)]
    ELSE [k \in 1..Len(c.params) |->
             BuildFragment(c.params[k][1], c.params[k][1], c.params[k][2].fragment)]

\* the places in fs of the first build of each fragment name
FirstPlaces(fs) ==
    {k \in 1..Len(fs) : \A j \in 1..(k - 1) : fs[j].fragmentName # fs[k].fragmentName}

FirstPlace(fs, k) == CHOOSE j \in FirstPlaces(fs) : fs[j].fragmentName = fs[k].fragmentName
LastPlace(fs, k) ==
    CHOOSE j \in 1..Len(fs) :
        /\ fs[j].fragmentName = fs[k].fragmentName
        /\ \A x \in (j + 1)..Len(fs) : fs[x].fragmentName # fs[k].fragmentName

\* the number of fragment names first built before place k
Rank(fs, k) == Cardinality({j \in FirstPlaces(fs) : j <= FirstPlace(fs, k)})

HasDocument == call.op \in {"query", "subscribe", "mutate"} /\ call.query # Undefined

\* C10 as stated: a fragment name carried by several builds of a document is
\* emitted once, with the text of the first build that carries it.
C10_FirstFragmentTextWins ==
    HasDocument =>
        LET fs == BuildFragments(call)
        IN  /\ Len(call.query.fragments) = Cardinality(FirstPlaces(fs))
            /\ \A k \in 1..Len(fs) :
                  call.query.fragments[Rank(fs, k)] = fs[FirstPlace(fs, k)].fragment

\* C10 as amended: a fragment name carried by several builds of a document is
\* emitted once, at the place of the first build that carries it, with the
\* text of the last build that carries it.
C10_LastFragmentTextWins ==
    HasDocument =>
        LET fs == BuildFragments(call)
        IN  /\ Len(call.query.fragments) = Cardinality(FirstPlaces(fs))
            /\ \A k \in 1..Len(fs) :
                  call.query.fragments[Rank(fs, k)] = fs[LastPlace(fs, k)].fragment

C10_Witness ==
    /\ call.op = "mutate"
    /\ call.stage = "awaiting"
    /\ BuildsOf(call.params) = <<<<User, <<"insert">>>>, <<User, <<"update">>>>>>
    /\ call.params[1][2][1][2].fragment = SharedA
    /\ call.params[1][2][2][2].fragment = SharedB
    /\ call.query.fragments = <<SharedB.fragment>>

====
